---- MODULE Spec2Model ----
(***************************************************************************)
(* A model of main.go: the process start-up (main), the websocket accept   *)
(* loop (handleWebSocket), the registry of connections (clients) and the   *)
(* relay goroutine (streamResponse) that forwards an upstream event stream *)
(* to a websocket connection.                                              *)
(*                                                                         *)
(* Text is modelled as a sequence of characters, so that concatenation is  *)
(* \o.  An upstream line is a sequence of tokens: white space, the word    *)
(* "data:", the word "[DONE]", a JSON document, or text that is no JSON.   *)
(* The newline that ends a line is white space at its end, which TrimSpace *)
(* removes, and is left out of the line.                                   *)
(***************************************************************************)
EXTENDS Integers, Sequences, FiniteSets, TLC

VARIABLES
    openAIKey,   \* main.go:29   the package-level API key
    port,        \* main.go:95   the port the server listens on ("" = none yet)
    proc,        \* position of main: "init", "listening" or "exited"
    clients,     \* main.go:66   the registry: the set of keys of the map
    connOpen,    \* per connection: the websocket is open
    hwPc,        \* per connection: position of its handleWebSocket call
    inbox,       \* per connection: the raw frames ReadJSON has consumed
    tasks,       \* the streamResponse goroutines, in spawn order
    delivered    \* per connection: the frames that reached the client

vars == <<openAIKey, port, proc, clients, connOpen, hwPc, inbox, tasks,
          delivered>>

-----------------------------------------------------------------------------
(* Bounds of the model. *)

\* The relay goroutines spawned in one run.
MaxTasks == 1
\* The ReadString calls of all relay goroutines of one run that return a line.
MaxLines == 1

\* The same two bounds of the runs of one connection with several relay
\* goroutines (SpecConn).
MaxConnTasks == 2
MaxConnLines == 2
\* The lines of the runs of one relay goroutine (SpecRelay).
MaxRelayLines == 3

\* The websocket connections of a run.
Conns == {"c1", "c2"}

-----------------------------------------------------------------------------
(* Program constants. *)

openAIURL == "https://api.openai.com/v1/chat/completions"
Model == "gpt-4o-mini"
DefaultPort == "8080"
\* The prefix "AI: " of the first frame, as text.
AIPrefix == <<"AI: ">>

-----------------------------------------------------------------------------
(* Text and JSON.  A character is a string; "xFF" is a byte that is no     *)
(* valid UTF-8, "uFFFD" the replacement character.                         *)

\* encoding/json, reading or writing a string: a byte that is no valid UTF-8
\* becomes U+FFFD; every other character is kept.
DecodeString(s) == [i \in 1..Len(s) |-> IF s[i] = "xFF" THEN "uFFFD" ELSE s[i]]

\* The tokens of an upstream line.  Every token has the same shape.
Tok(k) == [k |-> k, choices |-> <<>>]
Sp == Tok("sp")            \* " "
Cr == Tok("cr")            \* "\r"
DataWord == Tok("data:")   \* "data:"
DoneWord == Tok("[DONE]")  \* "[DONE]"
NotJson == Tok("notjson")  \* text that is no JSON document, such as {"choi
Mistyped == Tok("mistyped")\* a JSON document of another shape, such as "x" or {"choices":1}
\* {"choices":[{"delta":{"content":cs[1]}}, ...]}
Json(cs) == [k |-> "json", choices |-> cs]

\* unicode.IsSpace, as strings.TrimSpace uses it.
IsSpace(tok) == tok.k \in {"sp", "cr"}

RECURSIVE TrimLeft(_)
TrimLeft(line) ==
    IF line # <<>> /\ IsSpace(Head(line)) THEN TrimLeft(Tail(line)) ELSE line

RECURSIVE TrimRight(_)
TrimRight(line) ==
    IF line # <<>> /\ IsSpace(line[Len(line)])
    THEN TrimRight(SubSeq(line, 1, Len(line) - 1))
    ELSE line

\* strings.TrimSpace
TrimSpace(line) == TrimRight(TrimLeft(line))

\* strings.HasPrefix
HasPrefix(s, pre) == Len(s) >= Len(pre) /\ SubSeq(s, 1, Len(pre)) = pre

\* strings.TrimPrefix
TrimPrefix(s, pre) ==
    IF HasPrefix(s, pre) THEN SubSeq(s, Len(pre) + 1, Len(s)) ELSE s

\* "data: " and "data: [DONE]"
DataPrefix == <<DataWord, Sp>>
Sentinel == <<DataWord, Sp, DoneWord>>

\* json.Unmarshal([]byte(line), &aiResp): white space around the document is
\* allowed; the text must be one JSON document, of the shape of OpenAIResponse.
Unmarshal(text) ==
    LET t == TrimSpace(text)
    IN  IF Len(t) = 1 /\ t[1].k = "json"
        THEN [err |-> FALSE,
              choices |-> [i \in 1..Len(t[1].choices) |-> DecodeString(t[1].choices[i])]]
        ELSE [err |-> TRUE, choices |-> <<>>]

\* main.go:178-192: the text of the first choice's delta.content of a line that
\* ReadString returned, or the empty text when the loop body sends nothing.
Content(line) ==
    LET trimmed == TrimSpace(line)
        aiResp == Unmarshal(TrimPrefix(trimmed, DataPrefix))
    IN  IF trimmed = <<>> \/ trimmed = Sentinel THEN <<>>
        ELSE IF aiResp.err THEN <<>>
        ELSE IF Len(aiResp.choices) > 0 THEN aiResp.choices[1]
        ELSE <<>>

\* StreamStep with the else branch of main.go:197-200 left out: only the first
\* fragment is sent.
StreamStepFirstOnly(isFirstToken, line) ==
    LET content == Content(line)
    IN  IF content # <<>> /\ isFirstToken
        THEN [write |-> TRUE, text |-> AIPrefix \o content]
        ELSE [write |-> FALSE, text |-> <<>>]

\* StreamStep with the test of main.go:192 inverted: content == "".
StreamStepInverted(isFirstToken, line) ==
    LET content == Content(line)
    IN  IF content = <<>>
        THEN [write |-> TRUE,
              text |-> IF isFirstToken THEN AIPrefix \o content ELSE content]
        ELSE [write |-> FALSE, text |-> <<>>]

\* main.go:192-201: what the loop body passes to conn.WriteJSON for a line.
StreamStep(isFirstToken, line) ==
    LET content == Content(line)
    IN  IF content # <<>>
        THEN [write |-> TRUE,
              text |-> IF isFirstToken THEN AIPrefix \o content ELSE content]
        ELSE [write |-> FALSE, text |-> <<>>]

-----------------------------------------------------------------------------
(* Inbound websocket frames and the upstream request. *)

\* A client frame {"text": t}; a frame that is no JSON of that shape.
TextFrame(t) == [k |-> "json", text |-> t]
BadFrame == [k |-> "notjson", text |-> <<>>]

\* c.ReadJSON(&msg): the error and the decoded WebSocketMessage.
ReadJSON(frame) ==
    IF frame.k = "json"
    THEN [err |-> FALSE, Text |-> DecodeString(frame.text)]
    ELSE [err |-> TRUE, Text |-> <<>>]

\* encoding/json writing a string.
EncodeString(s) == [i \in 1..Len(s) |-> IF s[i] = "xFF" THEN "uFFFD" ELSE s[i]]

\* main.go:140-153: the request streamResponse builds, as the server reads it.
NewRequest(message) ==
    [method |-> "POST",
     url |-> openAIURL,
     authorization |-> <<"Bearer ", openAIKey>>,
     contentType |-> "application/json",
     model |-> Model,
     messages |-> << [role |-> "user", content |-> EncodeString(message)] >>,
     stream |-> TRUE]

\* go streamResponse(msg.Text, c): a goroutine at the start of the function.
NewTask(c, message) ==
    [conn |-> c, message |-> message, pc |-> "start", isFirstToken |-> TRUE,
     frame |-> <<>>, outcome |-> "running", requests |-> <<>>,
     seen |-> <<>>, tail |-> <<>>, emitted |-> <<>>]

\* What a client receives when two writes to its connection overlapped.
Garbled == <<"garbled">>

Tasks == 1..Len(tasks)

RECURSIVE SumSeen(_)
SumSeen(n) == IF n = 0 THEN 0 ELSE Len(tasks[n].seen) + SumSeen(n - 1)
\* The lines the relay goroutines have read so far.
LinesRead == SumSeen(Len(tasks))

-----------------------------------------------------------------------------
Init ==
    /\ openAIKey = <<>>
    /\ port = ""
    /\ proc = "init"
    /\ clients = {}
    /\ connOpen = [c \in Conns |-> FALSE]
    /\ hwPc = [c \in Conns |-> "none"]
    /\ inbox = [c \in Conns |-> <<>>]
    /\ tasks = <<>>
    /\ delivered = [c \in Conns |-> <<>>]

\* Main without the return at main.go:77: the server listens whether or not
\* the key is set.
MainListensWithoutKey(key, envPort) ==
    /\ proc = "init"
    /\ openAIKey' = key
    /\ proc' = "listening"
    /\ port' = IF envPort = "" THEN DefaultPort ELSE envPort
    /\ UNCHANGED <<clients, connOpen, hwPc, inbox, tasks, delivered>>

\* main.go:71-104
Main(key, envPort) ==
    /\ proc = "init"
    /\ openAIKey' = key
    /\ IF key = <<>>
       THEN /\ proc' = "exited"
            /\ port' = port
       ELSE /\ proc' = "listening"
            /\ port' = IF envPort = "" THEN DefaultPort ELSE envPort
    /\ UNCHANGED <<clients, connOpen, hwPc, inbox, tasks, delivered>>

-----------------------------------------------------------------------------
(* handleWebSocket, main.go:115-134.  hwPc[c] is "none" before the         *)
(* connection exists, "registering" inside clients[c] = true, "read" in    *)
(* the loop at c.ReadJSON, "unregistering" inside the deferred             *)
(* delete(clients, c), and "done" after the return.                        *)

\* Another handleWebSocket call is inside a write of the map clients.  The map
\* is written without a lock, so the two writes race: the write that ends
\* first takes effect or is lost.  (The Go runtime may also stop the process
\* with "concurrent map writes"; a stopped process takes no further step,
\* which every behaviour of this model may do.)
MapRace(c) ==
    \E d \in Conns \ {c} : hwPc[d] \in {"registering", "unregistering"}

\* main.go:91, 115: a client connects and its handler starts, entering
\* clients[c] = true.
Connect(c) ==
    /\ proc = "listening"
    /\ hwPc[c] = "none"
    /\ hwPc' = [hwPc EXCEPT ![c] = "registering"]
    /\ connOpen' = [connOpen EXCEPT ![c] = TRUE]
    /\ UNCHANGED <<openAIKey, port, proc, clients, inbox, tasks, delivered>>

\* main.go:118: clients[c] = true completes.  A racing write of the map may
\* lose it.
RegisterEnd(c) ==
    /\ hwPc[c] = "registering"
    /\ \/ clients' = clients \cup {c}
       \/ MapRace(c) /\ clients' = clients
    /\ hwPc' = [hwPc EXCEPT ![c] = "read"]
    /\ UNCHANGED <<openAIKey, port, proc, connOpen, inbox, tasks, delivered>>

\* The client closes the connection.
ClientClose(c) ==
    /\ hwPc[c] \in {"registering", "read"}
    /\ connOpen[c]
    /\ connOpen' = [connOpen EXCEPT ![c] = FALSE]
    /\ UNCHANGED <<openAIKey, port, proc, clients, hwPc, inbox, tasks, delivered>>

\* AcceptMessage with the loop waiting for the relay goroutines it spawned
\* (streamResponse called without go).
AcceptMessageWaits(c, frame, maxTasks) ==
    /\ hwPc[c] = "read"
    /\ connOpen[c]
    /\ Len(tasks) < maxTasks
    /\ \A t \in Tasks : tasks[t].conn = c => tasks[t].pc = "done"
    /\ ~ReadJSON(frame).err
    /\ inbox' = [inbox EXCEPT ![c] = Append(@, frame)]
    /\ tasks' = Append(tasks, NewTask(c, ReadJSON(frame).Text))
    /\ UNCHANGED <<openAIKey, port, proc, clients, connOpen, hwPc, delivered>>

\* main.go:124-132: ReadJSON returns a decoded message and the loop spawns
\* streamResponse for it, then reads again.
AcceptMessage(c, frame, maxTasks) ==
    /\ hwPc[c] = "read"
    /\ connOpen[c]
    /\ Len(tasks) < maxTasks
    /\ ~ReadJSON(frame).err
    /\ inbox' = [inbox EXCEPT ![c] = Append(@, frame)]
    /\ tasks' = Append(tasks, NewTask(c, ReadJSON(frame).Text))
    /\ UNCHANGED <<openAIKey, port, proc, clients, connOpen, hwPc, delivered>>

\* main.go:126-129: ReadJSON cannot decode the frame; the loop breaks and the
\* deferred delete starts.
RejectMessage(c, frame) ==
    /\ hwPc[c] = "read"
    /\ connOpen[c]
    /\ ReadJSON(frame).err
    /\ inbox' = [inbox EXCEPT ![c] = Append(@, frame)]
    /\ hwPc' = [hwPc EXCEPT ![c] = "unregistering"]
    /\ UNCHANGED <<openAIKey, port, proc, clients, connOpen, tasks, delivered>>

\* main.go:126-129: ReadJSON fails because the connection is closed.
ReadClosed(c) ==
    /\ hwPc[c] = "read"
    /\ ~connOpen[c]
    /\ hwPc' = [hwPc EXCEPT ![c] = "unregistering"]
    /\ UNCHANGED <<openAIKey, port, proc, clients, connOpen, inbox, tasks, delivered>>

\* UnregisterEnd with the relay goroutines of the connection cancelled when
\* the handler returns.
UnregisterEndCancels(c) ==
    /\ hwPc[c] = "unregistering"
    /\ \/ clients' = clients \ {c}
       \/ MapRace(c) /\ clients' = clients
    /\ hwPc' = [hwPc EXCEPT ![c] = "done"]
    /\ connOpen' = [connOpen EXCEPT ![c] = FALSE]
    /\ tasks' = [t \in Tasks |->
                    IF tasks[t].conn = c /\ tasks[t].pc # "done"
                    THEN [tasks[t] EXCEPT !.pc = "done", !.outcome = "cancelled"]
                    ELSE tasks[t]]
    /\ UNCHANGED <<openAIKey, port, proc, inbox, delivered>>

\* main.go:120, 134: delete(clients, c) completes and the handler returns,
\* which ends the connection.  A racing write of the map may lose the delete.
UnregisterEnd(c) ==
    /\ hwPc[c] = "unregistering"
    /\ \/ clients' = clients \ {c}
       \/ MapRace(c) /\ clients' = clients
    /\ hwPc' = [hwPc EXCEPT ![c] = "done"]
    /\ connOpen' = [connOpen EXCEPT ![c] = FALSE]
    /\ UNCHANGED <<openAIKey, port, proc, inbox, tasks, delivered>>

-----------------------------------------------------------------------------
(* streamResponse, main.go:138-204.  A task's pc is "start" before         *)
(* client.Do, "read" at reader.ReadString, "writing" inside                *)
(* conn.WriteJSON, and "done" after the return.                            *)

\* main.go:140-161: the request is sent and a response obtained.
DoRequestOk(t) ==
    /\ tasks[t].pc = "start"
    /\ tasks' = [tasks EXCEPT ![t].pc = "read", ![t].isFirstToken = TRUE,
                              ![t].requests = Append(@, NewRequest(tasks[t].message))]
    /\ UNCHANGED <<openAIKey, port, proc, clients, connOpen, hwPc, inbox, delivered>>

\* DoRequestFail with a second attempt when client.Do fails.
DoRequestFailRetries(t) ==
    /\ tasks[t].pc = "start"
    /\ tasks' = [tasks EXCEPT ![t].pc = "done", ![t].outcome = "connect_error",
                              ![t].requests = @ \o <<NewRequest(tasks[t].message),
                                                     NewRequest(tasks[t].message)>>]
    /\ UNCHANGED <<openAIKey, port, proc, clients, connOpen, hwPc, inbox, delivered>>

\* DoRequestFail with the failure passed on to the accept loop, which closes
\* the connection.
DoRequestFailClosesConn(t) ==
    /\ tasks[t].pc = "start"
    /\ tasks' = [tasks EXCEPT ![t].pc = "done", ![t].outcome = "connect_error",
                              ![t].requests = Append(@, NewRequest(tasks[t].message))]
    /\ connOpen' = [connOpen EXCEPT ![tasks[t].conn] = FALSE]
    /\ UNCHANGED <<openAIKey, port, proc, clients, hwPc, inbox, delivered>>

\* main.go:155-159: client.Do returns an error; the task logs it and returns.
DoRequestFail(t) ==
    /\ tasks[t].pc = "start"
    /\ tasks' = [tasks EXCEPT ![t].pc = "done", ![t].outcome = "connect_error",
                              ![t].requests = Append(@, NewRequest(tasks[t].message))]
    /\ UNCHANGED <<openAIKey, port, proc, clients, connOpen, hwPc, inbox, delivered>>

\* LoopBody with break in place of continue at main.go:186.
LoopBodyBreakOnBadJson(task, line) ==
    LET step == StreamStep(task.isFirstToken, line)
        trimmed == TrimSpace(line)
        bad == /\ trimmed # <<>>
               /\ trimmed # Sentinel
               /\ Unmarshal(TrimPrefix(trimmed, DataPrefix)).err
    IN  [task EXCEPT
            !.seen = Append(@, line),
            !.pc = IF bad THEN "done" ELSE IF step.write THEN "writing" ELSE "read",
            !.frame = step.text,
            !.emitted = IF step.write THEN Append(@, step.text) ELSE @]

\* LoopBody with the goroutine ending on a record that carries no content
\* (choices[0] read without the test of main.go:190).
LoopBodyEndsOnEmptyChoices(task, line) ==
    LET step == StreamStep(task.isFirstToken, line)
        trimmed == TrimSpace(line)
        empty == /\ trimmed # <<>>
                 /\ trimmed # Sentinel
                 /\ ~Unmarshal(TrimPrefix(trimmed, DataPrefix)).err
                 /\ ~step.write
    IN  [task EXCEPT
            !.seen = Append(@, line),
            !.pc = IF empty THEN "done" ELSE IF step.write THEN "writing" ELSE "read",
            !.frame = step.text,
            !.emitted = IF step.write THEN Append(@, step.text) ELSE @]

\* main.go:177-202: the loop body on a line that ReadString returned, as the
\* change of the goroutine's state: it either goes back to ReadString or
\* enters conn.WriteJSON with a frame.
LoopBody(task, line) ==
    LET step == StreamStep(task.isFirstToken, line)
    IN  [task EXCEPT
            !.seen = Append(@, line),
            !.pc = IF step.write THEN "writing" ELSE "read",
            !.frame = step.text,
            !.emitted = IF step.write THEN Append(@, step.text) ELSE @]

\* main.go:168-202: ReadString returns a line and the loop body runs on it.
ReadLine(t, line, maxLines) ==
    /\ tasks[t].pc = "read"
    /\ LinesRead < maxLines
    /\ tasks' = [tasks EXCEPT ![t] = LoopBody(tasks[t], line)]
    /\ UNCHANGED <<openAIKey, port, proc, clients, connOpen, hwPc, inbox, delivered>>

\* ReadEOF with the loop body run on the text after the last newline (the
\* error of ReadString tested after the body).
ReadEOFProcessesRest(t, rest) ==
    /\ tasks[t].pc = "read"
    /\ tasks' = [tasks EXCEPT ![t] =
                    [LoopBody(tasks[t], rest) EXCEPT
                        !.seen = tasks[t].seen,
                        !.pc = "done", !.outcome = "eof",
                        !.tail = rest, !.frame = <<>>]]
    /\ UNCHANGED <<openAIKey, port, proc, clients, connOpen, hwPc, inbox, delivered>>

\* ReadEOF with the ending task removing its connection from the registry.
ReadEOFUnregisters(t, rest) ==
    /\ tasks[t].pc = "read"
    /\ tasks' = [tasks EXCEPT ![t].pc = "done", ![t].outcome = "eof", ![t].tail = rest]
    /\ clients' = clients \ {tasks[t].conn}
    /\ UNCHANGED <<openAIKey, port, proc, connOpen, hwPc, inbox, delivered>>

\* main.go:168-172: ReadString returns io.EOF, with the text after the last
\* newline; the loop breaks.
ReadEOF(t, rest) ==
    /\ tasks[t].pc = "read"
    /\ tasks' = [tasks EXCEPT ![t].pc = "done", ![t].outcome = "eof", ![t].tail = rest]
    /\ UNCHANGED <<openAIKey, port, proc, clients, connOpen, hwPc, inbox, delivered>>

\* ReadFail with the loop body run on the text read before the error.
ReadFailProcessesRest(t, rest) ==
    /\ tasks[t].pc = "read"
    /\ tasks' = [tasks EXCEPT ![t] =
                    [LoopBody(tasks[t], rest) EXCEPT
                        !.pc = "done", !.outcome = "read_error",
                        !.tail = rest, !.frame = <<>>]]
    /\ UNCHANGED <<openAIKey, port, proc, clients, connOpen, hwPc, inbox, delivered>>

\* main.go:168-175: ReadString returns another error; the task logs it and
\* the loop breaks.
ReadFail(t, rest) ==
    /\ tasks[t].pc = "read"
    /\ tasks' = [tasks EXCEPT ![t].pc = "done", ![t].outcome = "read_error", ![t].tail = rest]
    /\ UNCHANGED <<openAIKey, port, proc, clients, connOpen, hwPc, inbox, delivered>>

\* Another task is inside conn.WriteJSON on the same connection.  WriteJSON is
\* called without a lock, so the two writes race.
WriteRace(t) ==
    \E u \in Tasks \ {t} :
        tasks[u].conn = tasks[t].conn /\ tasks[u].pc = "writing"

\* WriteEnd with isFirstToken held once for the connection and not in each
\* call of streamResponse: the write of one task clears it for all of them.
WriteEndSharedFlag(t) ==
    /\ tasks[t].pc = "writing"
    /\ LET c == tasks[t].conn
       IN  \/ /\ connOpen[c]
              /\ delivered' = [delivered EXCEPT ![c] = Append(@, tasks[t].frame)]
           \/ /\ ~connOpen[c]
              /\ delivered' = delivered
    /\ tasks' = [u \in Tasks |->
                    IF u = t
                    THEN [tasks[u] EXCEPT !.pc = "read", !.isFirstToken = FALSE,
                                          !.frame = <<>>]
                    ELSE IF tasks[u].conn = tasks[t].conn
                         THEN [tasks[u] EXCEPT !.isFirstToken = FALSE]
                         ELSE tasks[u]]
    /\ UNCHANGED <<openAIKey, port, proc, clients, connOpen, hwPc, inbox>>

\* WriteEnd with isFirstToken cleared only when conn.WriteJSON returned no
\* error.
WriteEndClearsOnSuccess(t) ==
    /\ tasks[t].pc = "writing"
    /\ LET c == tasks[t].conn
       IN  \/ /\ connOpen[c]
              /\ delivered' = [delivered EXCEPT ![c] = Append(@, tasks[t].frame)]
              /\ tasks' = [tasks EXCEPT ![t].pc = "read", ![t].isFirstToken = FALSE,
                                        ![t].frame = <<>>]
           \/ /\ ~connOpen[c]
              /\ delivered' = delivered
              /\ tasks' = [tasks EXCEPT ![t].pc = "read", ![t].frame = <<>>]
    /\ UNCHANGED <<openAIKey, port, proc, clients, connOpen, hwPc, inbox>>

\* WriteEnd without main.go:196, isFirstToken = false.
WriteEndKeepsFirstToken(t) ==
    /\ tasks[t].pc = "writing"
    /\ LET c == tasks[t].conn
       IN  \/ /\ connOpen[c]
              /\ delivered' = [delivered EXCEPT ![c] = Append(@, tasks[t].frame)]
           \/ /\ ~connOpen[c]
              /\ delivered' = delivered
    /\ tasks' = [tasks EXCEPT ![t].pc = "read", ![t].frame = <<>>]
    /\ UNCHANGED <<openAIKey, port, proc, clients, connOpen, hwPc, inbox>>

\* main.go:193-200: conn.WriteJSON returns (its error is dropped) and
\* isFirstToken is cleared.  The frame reaches the client when the connection
\* is open; a racing write may garble it.
WriteEnd(t) ==
    /\ tasks[t].pc = "writing"
    /\ LET c == tasks[t].conn
       IN  \/ /\ connOpen[c]
              /\ delivered' = [delivered EXCEPT ![c] = Append(@, tasks[t].frame)]
           \/ /\ connOpen[c]
              /\ WriteRace(t)
              /\ delivered' = [delivered EXCEPT ![c] = Append(@, Garbled)]
           \/ /\ ~connOpen[c]
              /\ delivered' = delivered
    /\ tasks' = [tasks EXCEPT ![t].pc = "read", ![t].isFirstToken = FALSE,
                              ![t].frame = <<>>]
    /\ UNCHANGED <<openAIKey, port, proc, clients, connOpen, hwPc, inbox>>

-----------------------------------------------------------------------------
(* The environment: the values of OPENAI_API_KEY and PORT, the frames the  *)
(* clients send and the lines the upstream sends.                          *)

Keys == {<<>>, <<"sk">>}
EnvPorts == {"", "3000"}

Record(cs) == <<DataWord, Sp, Json(cs)>>

Ports == {""}
Frames == {TextFrame(<<"h", "i">>), TextFrame(<<"xFF">>), BadFrame}
Lines == {Record(<< <<"a">> >>), Sentinel}
Rests == {<<>>}

RelayConns == {"c1"}
RelayFrames == {TextFrame(<<"h", "xFF">>), BadFrame}
RelayLines ==
    { <<>>,                                \* an empty line
      <<Cr>>,                              \* the empty line of a CRLF stream
      Sentinel,                            \* data: [DONE]
      Record(<< <<"a">> >>),               \* a record with content "a"
      Record(<< <<"b">> >>) \o <<Cr>>,     \* a record with content "b", CRLF
      Record(<< <<>> >>),                  \* a record with empty content
      Record(<<>>),                        \* data: {"choices":[]}
      Record(<< <<"c">>, <<"d">> >>),      \* a record with two choices
      <<DataWord, Sp, NotJson>>,           \* data: followed by broken JSON
      <<DataWord, Sp, Mistyped>>,          \* data: followed by JSON of another shape
      <<DataWord, Json(<< <<"a">> >>)>>,   \* data:{...} without the space
      <<Json(<< <<"b">> >>)>> }            \* a JSON line without data:
RelayRests == {<<>>, Record(<< <<"a">> >>)}

NextOver(ports, conns, frames, lines, rests, maxTasks, maxLines) ==
    \/ \E key \in Keys, envPort \in ports : Main(key, envPort)
    \/ \E c \in conns : Connect(c)
    \/ \E c \in conns : RegisterEnd(c)
    \/ \E c \in conns : ClientClose(c)
    \/ \E c \in conns, f \in frames : AcceptMessage(c, f, maxTasks)
    \/ \E c \in conns, f \in frames : RejectMessage(c, f)
    \/ \E c \in conns : ReadClosed(c)
    \/ \E c \in conns : UnregisterEnd(c)
    \/ \E t \in Tasks : DoRequestOk(t)
    \/ \E t \in Tasks : DoRequestFail(t)
    \/ \E t \in Tasks, l \in lines : ReadLine(t, l, maxLines)
    \/ \E t \in Tasks, r \in rests : ReadEOF(t, r)
    \/ \E t \in Tasks, r \in rests : ReadFail(t, r)
    \/ \E t \in Tasks : WriteEnd(t)

\* The whole server: two connections, whose handlers share the registry.
Next == NextOver(EnvPorts, Conns, Frames, Lines, Rests, MaxTasks, MaxLines)
Spec == Init /\ [][Next]_vars

\* One connection whose client sends several messages: several relay
\* goroutines write to the same connection.
NextConn == NextOver(Ports, RelayConns, Frames, Lines, Rests, MaxConnTasks, MaxConnLines)
SpecConn == Init /\ [][NextConn]_vars

\* One connection whose client sends one message: one relay goroutine, over
\* every kind of upstream line.
NextRelay ==
    NextOver(Ports, RelayConns, RelayFrames, RelayLines, RelayRests,
             Cardinality(RelayConns), MaxRelayLines)
SpecRelay == Init /\ [][NextRelay]_vars

-----------------------------------------------------------------------------
(* The claims about one relay task, checked under SpecRelay.               *)

\* The non-empty fragments of the lines a task has read, in upstream order.
Fragments(seen) ==
    SelectSeq([i \in 1..Len(seen) |-> Content(seen[i])], LAMBDA x : x # <<>>)

\* The frames the prefixing rule asks for: "AI: " before the first fragment,
\* every later fragment bare.
Prefixed(frags) ==
    [i \in 1..Len(frags) |-> IF i = 1 THEN AIPrefix \o frags[i] ELSE frags[i]]

RECURSIVE Concat(_)
Concat(texts) == IF texts = <<>> THEN <<>> ELSE Head(texts) \o Concat(Tail(texts))

\* A line that is empty after trimming, or is the sentinel.
Skippable(line) == TrimSpace(line) = <<>> \/ TrimSpace(line) = Sentinel

\* A line whose text after "data: " is nothing json.Unmarshal accepts.
Malformed(line) ==
    /\ ~Skippable(line)
    /\ Unmarshal(TrimPrefix(TrimSpace(line), DataPrefix)).err

\* Task t has just read a line: the step appended it to seen.
ReadsLine(t) ==
    /\ t \in 1..Len(tasks')
    /\ Len(tasks'[t].seen) = Len(tasks[t].seen) + 1

\* C1: the first frame a relay task passes to WriteJSON is "AI: " followed by
\* the first non-empty fragment, every later frame is the bare fragment, and a
\* task that has seen no non-empty fragment has emitted no frame.
C1_PrefixOnFirstFrameOnly ==
    \A t \in Tasks : tasks[t].emitted = Prefixed(Fragments(tasks[t].seen))

\* C1 witness: a task has emitted a prefixed frame and then a bare one.
C1_Witness ==
    \E t \in Tasks :
        /\ tasks[t].emitted = << AIPrefix \o <<"a">>, <<"b">> >>
        /\ tasks[t].pc = "read"

\* C2: the frames of a task, concatenated in emission order with the leading
\* "AI: " of the first removed, are the first choice's delta.content of the
\* records the task has read, concatenated in upstream order.
C2_ConcatenationPreserved ==
    \A t \in Tasks :
        LET em == tasks[t].emitted
            contents == [i \in 1..Len(tasks[t].seen) |-> Content(tasks[t].seen[i])]
        IN  IF em = <<>>
            THEN Concat(contents) = <<>>
            ELSE /\ HasPrefix(em[1], AIPrefix)
                 /\ Concat(<<TrimPrefix(em[1], AIPrefix)>> \o Tail(em)) = Concat(contents)

\* C2 witness: a task has read two records with fragments and relayed both.
C2_Witness ==
    \E t \in Tasks :
        /\ Len(tasks[t].seen) = 2
        /\ Content(tasks[t].seen[1]) = <<"b">>
        /\ Content(tasks[t].seen[2]) = <<"a">>
        /\ Len(tasks[t].emitted) = 2

\* C3, as claimed: the sentinel ends the task, so no line is read after it
\* (and so no frame is emitted after it).
C3_SentinelEndsTask ==
    \A t \in Tasks :
        \A i \in 1..Len(tasks[t].seen) :
            TrimSpace(tasks[t].seen[i]) = Sentinel => i = Len(tasks[t].seen)

\* C6: a step that reads a line which is empty after trimming, or is the
\* sentinel, emits no frame, enters no write, leaves isFirstToken as it was
\* and does not end the task.
C6_SkippedLines ==
    [][\A t \in Tasks :
         (ReadsLine(t) /\ Skippable(tasks'[t].seen[Len(tasks'[t].seen)]))
         => /\ tasks'[t].emitted = tasks[t].emitted
            /\ tasks'[t].isFirstToken = tasks[t].isFirstToken
            /\ tasks'[t].pc = "read"
            /\ tasks'[t].outcome = "running"]_vars

\* C6 witness: a task has read an empty line and the sentinel after a
\* fragment, and is still reading.
C6_Witness ==
    \E t \in Tasks :
        /\ Len(tasks[t].seen) = 2
        /\ Content(tasks[t].seen[1]) # <<>>
        /\ TrimSpace(tasks[t].seen[2]) = Sentinel
        /\ tasks[t].pc = "read"
        /\ Len(tasks[t].emitted) = 1

\* C7: a step that reads a malformed line emits no frame and does not end the
\* task; and a task that has read malformed lines has still emitted every
\* fragment of its well-formed lines, the first of them with the prefix.
C7_MalformedLinesSkipped ==
    /\ [][\A t \in Tasks :
            (ReadsLine(t) /\ Malformed(tasks'[t].seen[Len(tasks'[t].seen)]))
            => /\ tasks'[t].emitted = tasks[t].emitted
               /\ tasks'[t].pc = "read"
               /\ tasks'[t].outcome = "running"]_vars
    /\ [](\A t \in Tasks :
            (\E i \in 1..Len(tasks[t].seen) : Malformed(tasks[t].seen[i]))
            => tasks[t].emitted = Prefixed(Fragments(tasks[t].seen)))

\* C7 witness: a task read broken JSON and then a record, and emitted the
\* record's fragment with the prefix.
C7_Witness ==
    \E t \in Tasks :
        /\ tasks[t].seen = << <<DataWord, Sp, NotJson>>, Record(<< <<"a">> >>) >>
        /\ tasks[t].emitted = << AIPrefix \o <<"a">> >>

-----------------------------------------------------------------------------
(* The claims about the relay tasks of one connection, checked under       *)
(* SpecConn.                                                               *)

\* The frames of connection c that ReadJSON decoded, in arrival order.
Decoded(c) == SelectSeq(inbox[c], LAMBDA f : ~ReadJSON(f).err)

\* The relay tasks of connection c, in spawn order.
TasksOf(c) == SelectSeq(tasks, LAMBDA task : task.conn = c)

\* C4, as claimed: at most one task is inside a write of a frame to a
\* connection at any time.
C4_WritesExclusive ==
    \A t \in Tasks : \A u \in Tasks :
        (t # u /\ tasks[t].conn = tasks[u].conn)
        => ~(tasks[t].pc = "writing" /\ tasks[u].pc = "writing")

\* C5: the decoded frames of a connection and its relay tasks correspond one
\* to one, in order; a task has called client.Do at most once, exactly once
\* when it is past the call, and the request is a POST whose only message has
\* role "user" and the frame's decoded text as content, with stream true.
C5_OneRequestPerFrame ==
    \A c \in Conns :
        /\ Len(TasksOf(c)) = Len(Decoded(c))
        /\ \A i \in 1..Len(TasksOf(c)) :
              LET task == TasksOf(c)[i]
                  T == ReadJSON(Decoded(c)[i]).Text
              IN  /\ Len(task.requests) = IF task.pc = "start" THEN 0 ELSE 1
                  /\ \A k \in 1..Len(task.requests) :
                        /\ task.requests[k].method = "POST"
                        /\ task.requests[k].url = openAIURL
                        /\ task.requests[k].messages = << [role |-> "user", content |-> T] >>
                        /\ task.requests[k].stream = TRUE

\* C5 witness: two frames were decoded on one connection, the second with a
\* byte that is no UTF-8; both tasks have sent their request, one of which
\* failed.
C5_Witness ==
    \E c \in Conns :
        /\ Len(Decoded(c)) = 2
        /\ Decoded(c)[2] = TextFrame(<<"xFF">>)
        /\ Len(TasksOf(c)) = 2
        /\ TasksOf(c)[1].outcome = "connect_error"
        /\ Len(TasksOf(c)[2].requests) = 1
        /\ TasksOf(c)[2].requests[1].messages[1].content = <<"uFFFD">>

\* C8: a task whose request failed has read nothing, emitted nothing and is
\* done; the failing step changes nothing of the connection, its handler or
\* the registry; and after it the accept loop of an open connection still
\* accepts a message and spawns a task for it.
C8_ConnectFailureIsLocal ==
    /\ [](\A t \in Tasks :
            tasks[t].outcome = "connect_error"
            => /\ tasks[t].pc = "done"
               /\ tasks[t].emitted = <<>>
               /\ tasks[t].seen = <<>>
               /\ Len(tasks[t].requests) = 1)
    /\ [][\A t \in Tasks :
            (tasks[t].outcome = "running" /\ tasks'[t].outcome = "connect_error")
            => /\ UNCHANGED <<clients, connOpen, hwPc, inbox, delivered>>
               /\ Len(tasks') = Len(tasks)
               /\ \A u \in Tasks \ {t} : tasks'[u] = tasks[u]]_vars
    /\ [](\A t \in Tasks :
            LET c == tasks[t].conn
            IN  (/\ tasks[t].outcome = "connect_error"
                 /\ hwPc[c] = "read" /\ connOpen[c]
                 /\ Len(tasks) < MaxConnTasks)
                => ENABLED AcceptMessage(c, TextFrame(<<"h", "i">>), MaxConnTasks))

\* C8 witness: the first task of a connection failed to connect without a
\* frame, the connection is registered and open with its loop reading, and a
\* second task of the connection is streaming.
C8_Witness ==
    \E c \in Conns :
        /\ Len(TasksOf(c)) = 2
        /\ TasksOf(c)[1].outcome = "connect_error"
        /\ TasksOf(c)[1].emitted = <<>>
        /\ TasksOf(c)[2].pc = "writing"
        /\ c \in clients /\ connOpen[c] /\ hwPc[c] = "read"

\* C10: whatever the relay tasks of a connection are doing, its accept loop,
\* when it is at ReadJSON on an open connection, can take the next message.
C10_AcceptLoopNeverWaits ==
    \A c \in Conns :
        (hwPc[c] = "read" /\ connOpen[c] /\ Len(tasks) < MaxConnTasks)
        => ENABLED AcceptMessage(c, TextFrame(<<"h", "i">>), MaxConnTasks)

\* C10 witness: two relay tasks of one connection are in flight, one inside
\* a write and one at the start, while the accept loop is reading again.
C10_Witness ==
    \E c \in Conns :
        /\ hwPc[c] = "read" /\ connOpen[c]
        /\ Len(TasksOf(c)) = 2
        /\ TasksOf(c)[1].pc = "writing"
        /\ TasksOf(c)[2].pc = "start"

-----------------------------------------------------------------------------
(* The claims about the registry, checked under Spec.                      *)

\* C9, as claimed: a connection whose accept loop is running is in the
\* registry, and a connection without a running accept loop is not.
C9_RegisteredWhileLoopRuns ==
    \A c \in Conns :
        /\ hwPc[c] = "read" => c \in clients
        /\ hwPc[c] \in {"none", "done"} => c \notin clients

\* The number of frames in a sequence that start with "AI: ".
PrefixedCount(frames) ==
    Cardinality({i \in 1..Len(frames) : HasPrefix(frames[i], AIPrefix)})

RECURSIVE SumPrefixed(_)
SumPrefixed(ts) ==
    IF ts = <<>> THEN 0 ELSE PrefixedCount(Head(ts).emitted) + SumPrefixed(Tail(ts))

-----------------------------------------------------------------------------
(* The claims about disconnecting clients and process start-up.            *)

\* C11: no step of a handler or of a client (a step that changes hwPc,
\* connOpen or clients) changes a relay task; a task ends only by a failed
\* request, end-of-stream or a read error; and a task whose connection's
\* handler has returned can still read the next line and finish its write.
C11_NoCancellation ==
    /\ [][\A t \in Tasks :
            (hwPc' # hwPc \/ connOpen' # connOpen \/ clients' # clients)
            => tasks'[t] = tasks[t]]_vars
    /\ [](\A t \in Tasks :
            tasks[t].pc = "done"
            => tasks[t].outcome \in {"connect_error", "eof", "read_error"})
    /\ [](\A t \in Tasks :
            hwPc[tasks[t].conn] = "done"
            => /\ (tasks[t].pc = "read" /\ LinesRead < MaxConnLines)
                  => ENABLED ReadLine(t, <<>>, MaxConnLines)
               /\ tasks[t].pc = "writing" => ENABLED WriteEnd(t))

\* C11 witness: the handler of a connection has returned and the connection
\* is out of the registry, while a task of it is inside its second write;
\* none of its frames reached the client.
C11_Witness ==
    \E t \in Tasks :
        /\ hwPc[tasks[t].conn] = "done"
        /\ tasks[t].conn \notin clients
        /\ tasks[t].pc = "writing"
        /\ Len(tasks[t].emitted) = 2
        /\ delivered[tasks[t].conn] = <<>>

\* C12: a process started without OPENAI_API_KEY exits and never listens: it
\* has no port, no connection, no registry entry and no relay task.  A
\* process started with the key listens, on PORT when it is set and on 8080
\* when it is not; connections and tasks exist only while it listens.
C12_NoKeyNoServer ==
    /\ (proc = "exited" \/ (proc # "init" /\ openAIKey = <<>>))
       => /\ proc = "exited" /\ openAIKey = <<>> /\ port = ""
          /\ clients = {} /\ tasks = <<>>
          /\ \A c \in Conns :
                /\ hwPc[c] = "none" /\ ~connOpen[c]
                /\ inbox[c] = <<>> /\ delivered[c] = <<>>
                /\ ~ENABLED Connect(c)
    /\ (\E c \in Conns : hwPc[c] # "none") \/ tasks # <<>>
       => proc = "listening" /\ openAIKey # <<>>
    /\ proc = "listening" => port \in {DefaultPort} \cup (EnvPorts \ {""})
    /\ proc = "init"
       => /\ ENABLED (Main(<<"sk">>, "") /\ port' = DefaultPort)
          /\ ~ENABLED (Main(<<"sk">>, "") /\ port' # DefaultPort)
          /\ ENABLED (Main(<<"sk">>, "3000") /\ port' = "3000")
          /\ ~ENABLED (Main(<<"sk">>, "3000") /\ port' # "3000")
          /\ ~ENABLED (Main(<<>>, "3000") /\ proc' # "exited")

\* C12 witness: the process was started without the key and has exited.
C12_Witness ==
    proc = "exited" /\ openAIKey = <<>> /\ port = ""

-----------------------------------------------------------------------------
(* The claims about the end of the upstream stream.                        *)

\* C13: the step in which reading the upstream body fails ends the task and
\* emits nothing; after it the task takes no step (no read, no write, no
\* second request), and what was delivered to the clients before is never
\* removed or reordered: every delivered sequence only grows at its end.
C13_ReadErrorEndsTask ==
    /\ [][\A t \in Tasks :
            /\ (tasks[t].outcome = "running" /\ tasks'[t].outcome = "read_error")
               => /\ tasks'[t].pc = "done"
                  /\ tasks'[t].emitted = tasks[t].emitted
                  /\ tasks'[t].seen = tasks[t].seen
                  /\ tasks'[t].requests = tasks[t].requests
                  /\ delivered' = delivered
            /\ tasks[t].outcome = "read_error" => tasks'[t] = tasks[t]]_vars
    /\ [][\A c \in Conns :
            /\ Len(delivered'[c]) >= Len(delivered[c])
            /\ SubSeq(delivered'[c], 1, Len(delivered[c])) = delivered[c]]_vars
    /\ [](\A t \in Tasks :
            tasks[t].outcome = "read_error"
            => /\ tasks[t].pc = "done"
               /\ Len(tasks[t].requests) = 1
               /\ ~ENABLED WriteEnd(t)
               /\ ~ENABLED ReadFail(t, <<>>)
               /\ ~ENABLED ReadLine(t, Record(<< <<"a">> >>), MaxRelayLines + 1))

\* C13 witness: the read failed in the middle of a record after two frames
\* were emitted, and both frames are with the client, in order.
C13_Witness ==
    \E t \in Tasks :
        /\ tasks[t].outcome = "read_error"
        /\ tasks[t].tail = Record(<< <<"a">> >>)
        /\ tasks[t].emitted = << AIPrefix \o <<"a">>, <<"b">> >>
        /\ delivered[tasks[t].conn] = tasks[t].emitted

\* A record that json.Unmarshal accepts and that carries no content: its
\* choices list is empty, or the first choice's delta.content is.
EmptyRecord(line) ==
    /\ ~Skippable(line)
    /\ ~Malformed(line)
    /\ Content(line) = <<>>

\* C15: a step that reads a record without content emits no frame, leaves
\* isFirstToken as it was and does not end the task; a step that reads a
\* record with content emits it, with "AI: " exactly when the task has
\* emitted nothing before; so a task that has read records without content
\* has emitted every fragment of its other lines, the first with the prefix.
C15_EmptyRecordsSkipped ==
    /\ [][\A t \in Tasks :
            ReadsLine(t)
            => LET line == tasks'[t].seen[Len(tasks'[t].seen)]
               IN  /\ EmptyRecord(line)
                      => /\ tasks'[t].emitted = tasks[t].emitted
                         /\ tasks'[t].isFirstToken = tasks[t].isFirstToken
                         /\ tasks'[t].pc = "read"
                         /\ tasks'[t].outcome = "running"
                         /\ delivered' = delivered
                   /\ Content(line) # <<>>
                      => /\ tasks'[t].pc = "writing"
                         /\ tasks'[t].emitted =
                               Append(tasks[t].emitted,
                                      IF tasks[t].emitted = <<>>
                                      THEN AIPrefix \o Content(line)
                                      ELSE Content(line))]_vars
    /\ [](\A t \in Tasks :
            (\E i \in 1..Len(tasks[t].seen) : EmptyRecord(tasks[t].seen[i]))
            => tasks[t].emitted = Prefixed(Fragments(tasks[t].seen)))

\* C15 witness: a task read a record with an empty choices list, a record
\* whose content is empty and then a record with content, and emitted that
\* content with the prefix.
C15_Witness ==
    \E t \in Tasks :
        /\ tasks[t].seen = << Record(<<>>), Record(<< <<>> >>), Record(<< <<"a">> >>) >>
        /\ tasks[t].emitted = << AIPrefix \o <<"a">> >>
        /\ delivered[tasks[t].conn] = tasks[t].emitted

\* C18: the step in which ReadString returns io.EOF ends the task and emits
\* nothing, whatever text came after the last newline; so the frames of an
\* ended task are the fragments of its newline-terminated lines only, and a
\* record left without its newline is in none of them.
C18_UnterminatedRecordDropped ==
    /\ [][\A t \in Tasks :
            (tasks[t].outcome = "running" /\ tasks'[t].outcome = "eof")
            => /\ tasks'[t].pc = "done"
               /\ tasks'[t].emitted = tasks[t].emitted
               /\ tasks'[t].seen = tasks[t].seen
               /\ delivered' = delivered]_vars
    /\ [](\A t \in Tasks :
            tasks[t].outcome = "eof"
            => /\ tasks[t].pc = "done"
               /\ tasks[t].emitted = Prefixed(Fragments(tasks[t].seen))
               /\ Len(delivered[tasks[t].conn]) <= Len(Fragments(tasks[t].seen))
               /\ ~ENABLED WriteEnd(t)
               /\ ~ENABLED ReadLine(t, tasks[t].tail, MaxRelayLines + 1))

\* C18 witness: the stream ended after a terminated record and a record with
\* content that had no newline; the task emitted the first one only.
C18_Witness ==
    \E t \in Tasks :
        /\ tasks[t].outcome = "eof"
        /\ tasks[t].seen = << Record(<< <<"b">> >>) \o <<Cr>> >>
        /\ tasks[t].tail = Record(<< <<"a">> >>)
        /\ tasks[t].emitted = << AIPrefix \o <<"b">> >>
        /\ delivered[tasks[t].conn] = tasks[t].emitted

\* C19: the step in which conn.WriteJSON returns takes the task back to
\* ReadString with isFirstToken false, whether the frame reached the client
\* or the write failed (the connection is closed); the task is not ended by
\* it and can read on.  So the write attempts of a task are the prefixed
\* fragments even when none was delivered, the prefix goes with the first
\* attempt only, and when the first write failed no frame that reaches the
\* client carries the prefix.
C19_WriteFailureIgnored ==
    /\ [][\A t \in Tasks :
            (tasks[t].pc = "writing" /\ tasks'[t] # tasks[t])
            => /\ tasks'[t].pc = "read"
               /\ tasks'[t].outcome = "running"
               /\ ~tasks'[t].isFirstToken
               /\ tasks'[t].emitted = tasks[t].emitted
               /\ ~connOpen[tasks[t].conn] => delivered' = delivered]_vars
    /\ [](\A t \in Tasks :
            /\ tasks[t].pc = "writing" => ENABLED WriteEnd(t)
            /\ (tasks[t].pc = "read" /\ LinesRead < MaxRelayLines)
               => ENABLED ReadLine(t, <<>>, MaxRelayLines)
            /\ tasks[t].emitted = Prefixed(Fragments(tasks[t].seen))
            /\ \A i \in 2..Len(tasks[t].emitted) :
                  ~HasPrefix(tasks[t].emitted[i], AIPrefix)
            /\ LET c == tasks[t].conn
                   attempts == Len(tasks[t].emitted)
                                 - (IF tasks[t].pc = "writing" THEN 1 ELSE 0)
               IN  (/\ attempts >= 1
                    /\ \/ delivered[c] = <<>>
                       \/ delivered[c][1] # tasks[t].emitted[1])
                   => \A i \in 1..Len(delivered[c]) :
                         ~HasPrefix(delivered[c][i], AIPrefix))

\* C19 witness: the first write of a task failed, the task read on and is
\* back at ReadString after a second write, of a bare fragment; nothing
\* reached the client.
C19_Witness ==
    \E t \in Tasks :
        /\ tasks[t].emitted = << AIPrefix \o <<"a">>, <<"b">> >>
        /\ tasks[t].pc = "read"
        /\ tasks[t].outcome = "running"
        /\ ~tasks[t].isFirstToken
        /\ delivered[tasks[t].conn] = <<>>

-----------------------------------------------------------------------------
(* The claims about the accept loop and the registry, checked under Spec.  *)

\* C14, as claimed: once a frame of a connection failed to decode, the
\* accept loop has ended (the handler is in or past the deferred delete), the
\* frame is the last one read on the connection and the only undecodable one,
\* no relay task exists for it (tasks and decoded frames still correspond one
\* to one), and after the handler returned the connection is not in the
\* registry.
C14_DecodeFailureEndsLoop ==
    \A c \in Conns :
        (\E i \in 1..Len(inbox[c]) : ReadJSON(inbox[c][i]).err)
        => /\ hwPc[c] \in {"unregistering", "done"}
           /\ \A i \in 1..Len(inbox[c]) :
                 ReadJSON(inbox[c][i]).err => i = Len(inbox[c])
           /\ Len(TasksOf(c)) = Len(Decoded(c))
           /\ ~ENABLED AcceptMessage(c, TextFrame(<<"h", "i">>), MaxTasks + 1)
           /\ hwPc[c] = "done" => c \notin clients

\* C16, as claimed: at most one handler is inside a write of the registry
\* (clients[c] = true or delete(clients, c)) at any time.
C16_RegistryWritesExclusive ==
    \A c \in Conns : \A d \in Conns :
        c # d
        => ~(/\ hwPc[c] \in {"registering", "unregistering"}
             /\ hwPc[d] \in {"registering", "unregistering"})

====
